---- MODULE Spec2Model ----
(***************************************************************************)
(* Buying vs Renting wealth simulation (pages/10_Expected Outcomes).       *)
(*                                                                         *)
(* The page's numbers are Python floats.  They are modelled here as exact  *)
(* rationals num/den over arbitrary-precision naturals (TLC's own integers *)
(* are 32 bit), so every formula below is the real-number value of the     *)
(* source expression.  Of floating-point rounding the model keeps the one  *)
(* effect that changes what a call does: in 1 + r a term r of at most half *)
(* an ulp of 1.0 is absorbed, so that (1 + r) ** n - 1 is 0.               *)
(***************************************************************************)
EXTENDS Integers, Sequences, FiniteSets, TLC

(***************************************************************************)
(* Arbitrary-precision naturals: little-endian sequences of limbs in       *)
(* 0..Base-1 without leading zero limbs; <<>> is zero.  The operators work *)
(* on limb vectors and settle the carries in passes, which keeps the       *)
(* evaluation depth small.  An intermediate result that is used more than  *)
(* once is handed on as an operator argument, so it is computed once.      *)
(***************************************************************************)
Base == 10 * 10 * 10

Limb(a, i) == IF i >= 1 /\ i <= Len(a) THEN a[i] ELSE 0

MaxOf(S) == CHOOSE i \in S : \A j \in S : j <= i

\* drop the leading (most significant) zero limbs
Norm(a) ==
    LET nz == {i \in 1..Len(a) : a[i] # 0}
    IN  IF nz = {} THEN <<>> ELSE SubSeq(a, 1, MaxOf(nz))

NatToBig(k) ==
    Norm(<<k % Base, (k \div Base) % Base, (k \div (Base * Base)) % Base,
           k \div (Base * Base * Base)>>)

\* value of a natural of at most three limbs
BigToNat(a) == Limb(a, 1) + Base * Limb(a, 2) + Base * Base * Limb(a, 3)

\* one pass moving each limb's excess (or deficit) to the next limb
CarryPass(u) ==
    LET n == Len(u)
        m == IF u[n] >= Base THEN n + 1 ELSE n
    IN  [i \in 1..m |-> (Limb(u, i) % Base) + (Limb(u, i - 1) \div Base)]

RECURSIVE Carry(_)
Carry(u) ==
    IF \A i \in 1..Len(u) : u[i] >= 0 /\ u[i] < Base
    THEN Norm(u)
    ELSE Carry(CarryPass(u))

NAdd(a, b) ==
    LET n == IF Len(a) >= Len(b) THEN Len(a) ELSE Len(b)
    IN  Carry([i \in 1..n |-> Limb(a, i) + Limb(b, i)])

\* a - b for a >= b
NSub(a, b) == Carry([i \in 1..Len(a) |-> a[i] - Limb(b, i)])

\* sum of a[i] * b[k + 1 - i] for i in lo..hi
RECURSIVE ColSum(_, _, _, _, _)
ColSum(a, b, k, lo, hi) ==
    IF lo > hi THEN 0
    ELSE IF lo = hi THEN a[lo] * b[k + 1 - lo]
    ELSE LET mid == (lo + hi) \div 2
         IN  ColSum(a, b, k, lo, mid) + ColSum(a, b, k, mid + 1, hi)

NMul(a, b) ==
    IF a = <<>> \/ b = <<>> THEN <<>>
    ELSE LET la == Len(a)
             lb == Len(b)
         IN  Carry([k \in 1..(la + lb - 1) |->
                     ColSum(a, b, k,
                            IF k + 1 - lb > 1 THEN k + 1 - lb ELSE 1,
                            IF k < la THEN k ELSE la)])

\* -1, 0, 1 as a < b, a = b, a > b
NCmp(a, b) ==
    IF Len(a) < Len(b) THEN -1
    ELSE IF Len(a) > Len(b) THEN 1
    ELSE LET df == {i \in 1..Len(a) : a[i] # b[i]}
         IN  IF df = {} THEN 0
             ELSE IF a[MaxOf(df)] < b[MaxOf(df)] THEN -1 ELSE 1

NSquare(a) == NMul(a, a)

RECURSIVE NPow(_, _)
NPow(a, k) ==
    IF k = 0 THEN <<1>>
    ELSE IF k % 2 = 0 THEN NSquare(NPow(a, k \div 2))
    ELSE NMul(a, NPow(a, k - 1))

RECURSIVE Gcd(_, _)
Gcd(m, n) == IF n = 0 THEN m ELSE Gcd(n, m % n)

(***************************************************************************)
(* Rationals: [s |-> sign in {-1,0,1}, n |-> |numerator|, d |-> denominator]*)
(* with d > 0.  Only short fractions are kept in lowest terms, so two      *)
(* records can differ and still be the same number: RCmp compares values.  *)
(***************************************************************************)
\* sign * (a / g) / (den / g)
QOver(sign, a, den, g) ==
    [s |-> sign, n |-> NatToBig(a \div g), d |-> NatToBig(den \div g)]

QSigned(sign, a, den) == QOver(sign, a, den, Gcd(a, den))

\* num / den in lowest terms, for integers num and den > 0
Q(num, den) ==
    IF num = 0 THEN QSigned(0, 0, den)
    ELSE IF num < 0 THEN QSigned(-1, -num, den)
    ELSE QSigned(1, num, den)

\* number of low-order zero limbs of a # <<>>
LowZeros(a) == (CHOOSE i \in 1..Len(a) : a[i] # 0 /\ \A j \in 1..(i - 1) : a[j] = 0) - 1

\* a cheaper form of the same number: lowest terms for fractions whose parts
\* have at most three limbs, else the common power of Base cancelled
Min(a, b) == IF a < b THEN a ELSE b

\* x with the z low-order limbs of both parts dropped
DropLimbs(x, z) ==
    [s |-> x.s, n |-> SubSeq(x.n, z + 1, Len(x.n)),
     d |-> SubSeq(x.d, z + 1, Len(x.d))]

Lowest(x) ==
    IF x.s = 0 THEN x
    ELSE IF Len(x.n) <= 3 /\ Len(x.d) <= 3
    THEN Q(x.s * BigToNat(x.n), BigToNat(x.d))
    ELSE DropLimbs(x, Min(LowZeros(x.n), LowZeros(x.d)))

Zero == Q(0, 1)
One == Q(1, 1)

RNeg(x) == [x EXCEPT !.s = -x.s]

RMul(x, y) ==
    IF x.s = 0 \/ y.s = 0 THEN Zero
    ELSE Lowest([s |-> x.s * y.s, n |-> NMul(x.n, y.n), d |-> NMul(x.d, y.d)])

\* a / d - b / d for naturals a, b, d, given c = NCmp(a, b)
NDiff(a, b, d, c) ==
    IF c = 0 THEN [s |-> 0, n |-> <<>>, d |-> <<1>>]
    ELSE IF c > 0 THEN [s |-> 1, n |-> NSub(a, b), d |-> d]
    ELSE [s |-> -1, n |-> NSub(b, a), d |-> d]

\* sx * a / d + sy * b / d for signs sx, sy in {-1, 1}
RSum(sx, a, sy, b, d) ==
    IF sx = sy THEN [s |-> sx, n |-> NAdd(a, b), d |-> d]
    ELSE IF sx > 0 THEN NDiff(a, b, d, NCmp(a, b))
    ELSE NDiff(b, a, d, NCmp(b, a))

RAdd(x, y) ==
    IF x.s = 0 THEN y
    ELSE IF y.s = 0 THEN x
    ELSE Lowest(RSum(x.s, NMul(x.n, y.d), y.s, NMul(y.n, x.d), NMul(x.d, y.d)))

RSub(x, y) == RAdd(x, RNeg(y))

\* x / y for y # 0
RDiv(x, y) ==
    IF x.s = 0 THEN Zero
    ELSE Lowest([s |-> x.s * y.s, n |-> NMul(x.n, y.d), d |-> NMul(x.d, y.n)])

\* x ** k for an integer k; for k < 0 it is 1 / x ** (-k) and needs x # 0
RPow(x, k) ==
    IF k = 0 THEN One
    ELSE IF x.s = 0 THEN Zero
    ELSE IF k > 0
    THEN [s |-> IF x.s < 0 /\ k % 2 = 1 THEN -1 ELSE 1,
          n |-> NPow(x.n, k), d |-> NPow(x.d, k)]
    ELSE [s |-> IF x.s < 0 /\ (-k) % 2 = 1 THEN -1 ELSE 1,
          n |-> NPow(x.d, -k), d |-> NPow(x.n, -k)]

\* -1, 0, 1 as x < y, x = y, x > y
RCmp(x, y) == RSub(x, y).s

REq(x, y) == RCmp(x, y) = 0
RLt(x, y) == RCmp(x, y) < 0
RLe(x, y) == RCmp(x, y) <= 0

\* largest d in lo..hi with d * b <= a (d = lo is assumed to qualify)
RECURSIVE Digit(_, _, _, _)
Digit(a, b, lo, hi) ==
    IF lo = hi THEN lo
    ELSE LET mid == (lo + hi + 1) \div 2
         IN  IF NCmp(NMul(b, <<mid>>), a) <= 0
             THEN Digit(a, b, mid, hi)
             ELSE Digit(a, b, lo, mid - 1)

\* long division, one quotient limb per step, from limb k of a downwards;
\* the leading limbs of the dividend and the divisor bracket each limb
RECURSIVE DivStep(_, _, _, _, _), DivLimb(_, _, _, _, _, _),
          DivNext(_, _, _, _, _, _)
\* value of the limbs of a from limb h upwards (at most three)
Top(a, h) == BigToNat(SubSeq(a, Min(h, Len(a) + 1), Len(a)))

\* the quotient limb of cur by b, where tc and tb are the values of the
\* leading limbs of cur and b from the same limb upwards
QuotLimb(cur, b, tc, tb) ==
    Digit(cur, b, tc \div (tb + 1), Min(tc \div tb, Base - 1))

DivStep(a, b, k, rem, qs) ==
    IF k = 0 THEN [q |-> Norm(qs), r |-> rem]
    ELSE DivLimb(a, b, k, Norm(<<a[k]>> \o rem), qs,
                 IF Len(b) = 1 THEN 1 ELSE Len(b) - 1)

DivLimb(a, b, k, cur, qs, h) ==
    DivNext(a, b, k, cur, qs, QuotLimb(cur, b, Top(cur, h), Top(b, h)))

DivNext(a, b, k, cur, qs, d) ==
    DivStep(a, b, k - 1, NSub(cur, NMul(b, <<d>>)), <<d>> \o qs)

\* quotient and remainder of a by b > 0
NDivMod(a, b) ==
    LET l == Len(a) - Len(b) + 1
    IN  IF l <= 0 THEN [q |-> <<>>, r |-> a]
        ELSE DivStep(a, b, l, SubSeq(a, l + 1, Len(a)), <<>>)

\* q, or q + 1 when twice the remainder r compares c > 0 with the divisor,
\* or c = 0 (a tie) and q is odd
RoundUp(q, c) ==
    IF c > 0 \/ (c = 0 /\ Limb(q, 1) % 2 = 1) THEN NAdd(q, <<1>>) ELSE q

RoundQuot(qr, d) == RoundUp(qr.q, NCmp(NAdd(qr.r, qr.r), d))

\* |x| rounded to the nearest natural, ties to even
RoundHalfEven(x) == RoundQuot(NDivMod(x.n, x.d), x.d)

(***************************************************************************)
(* Outcome of a call: a returned value or a raised exception.              *)
(***************************************************************************)
Returns(v) == [exc |-> "none", val |-> v]
Raises(e) == [exc |-> e, val |-> <<>>]

\* x ** k raises ZeroDivisionError for x = 0 and k < 0
PowFails(x, k) == x.s = 0 /\ k < 0

\* half an ulp of 1.0 in binary64: 2 ** -53
HalfUlp == [s |-> 1, n |-> <<1>>, d |-> NPow(<<2>>, 53)]

\* the float 1 + r: r is absorbed when it is at most half an ulp of 1.0
\* (2 ** -53 above 1.0, 2 ** -54 below it, ties going to 1.0); any other r
\* is added exactly
OnePlus(r) ==
    IF r.s >= 0 /\ RLe(r, HalfUlp) THEN One
    ELSE IF r.s < 0 /\ RLe(RNeg(r), RDiv(HalfUlp, Q(2, 1))) THEN One
    ELSE RAdd(One, r)

(***************************************************************************)
(* Core financial functions.  A local variable of the source that is used  *)
(* more than once is an argument of a helper operator here: r and n are    *)
(* the source's r and n, base is 1 + r and g is (1 + r) ** n.              *)
(***************************************************************************)
\* line 25, given g: principal * (r * g) / (g - 1)
Amortised(principal, r, g) ==
    IF REq(g, One) THEN Raises("ZeroDivisionError")
    ELSE Returns(RDiv(RMul(principal, RMul(r, g)), RSub(g, One)))

\* line 25, given base
Amortise(principal, r, n, base) ==
    IF PowFails(base, n) THEN Raises("ZeroDivisionError")
    ELSE Amortised(principal, r, RPow(base, n))

\* lines 21-22 and 25
PaymentAtRate(principal, r, n) == Amortise(principal, r, n, OnePlus(r))

monthly_mortgage_payment(principal, annual_rate, years) ==
    IF annual_rate.s = 0
    THEN IF years * 12 = 0 THEN Raises("ZeroDivisionError")
         ELSE Returns(RDiv(principal, Q(years * 12, 1)))
    ELSE PaymentAtRate(principal, RDiv(annual_rate, Q(12, 1)), years * 12)

\* pv * base ** years
Grown(pv, base, years) ==
    IF PowFails(base, years) THEN Raises("ZeroDivisionError")
    ELSE Returns(RMul(pv, RPow(base, years)))

fv_lump_sum(pv, annual_rate, years) == Grown(pv, OnePlus(annual_rate), years)

\* line 35, given base: pmt * ((base ** n - 1) / r)
Accumulated(pmt, r, n, base) ==
    IF PowFails(base, n) THEN Raises("ZeroDivisionError")
    ELSE Returns(RMul(pmt, RDiv(RSub(RPow(base, n), One), r)))

\* lines 31-32 and 35
AnnuityAtRate(pmt, r, n) == Accumulated(pmt, r, n, OnePlus(r))

\* fv_monthly_annuity with the zero-rate branch counting years for months
fv_monthly_annuity_per_year(pmt, annual_rate, years) ==
    IF annual_rate.s = 0 THEN Returns(RMul(pmt, Q(years, 1)))
    ELSE AnnuityAtRate(pmt, RDiv(annual_rate, Q(12, 1)), years * 12)

fv_monthly_annuity(pmt, annual_rate, years) ==
    IF annual_rate.s = 0 THEN Returns(RMul(pmt, Q(years * 12, 1)))
    ELSE AnnuityAtRate(pmt, RDiv(annual_rate, Q(12, 1)), years * 12)

\* lines 55-56: diff and the returned tuple
Wealth(buy_wealth, rent_wealth) ==
    Returns([buy_wealth |-> buy_wealth, rent_wealth |-> rent_wealth,
             diff |-> RSub(buy_wealth, rent_wealth)])

\* lines 52-54, given the outcomes of the three future-value calls: the
\* first exception raised leaves the function, else rent_wealth is
\* lump + annuity
Wealths(buy_wealth, lump, annuity) ==
    IF buy_wealth.exc # "none" THEN Raises(buy_wealth.exc)
    ELSE IF lump.exc # "none" THEN Raises(lump.exc)
    ELSE IF annuity.exc # "none" THEN Raises(annuity.exc)
    ELSE Wealth(buy_wealth.val, RAdd(lump.val, annuity.val))

\* lines 49-54, given m_mort and monthly_contribution
Invested(p, monthly_contribution) ==
    Wealths(fv_lump_sum(p.house_price, p.home_appreciation, p.term_years),
            fv_lump_sum(RMul(p.house_price, p.down_pct), p.invest_return,
                        p.term_years),
            fv_monthly_annuity(monthly_contribution, p.invest_return,
                               p.term_years))

\* buy_vs_rent_wealth investing rent - mortgage instead of mortgage - rent
Contributed_rent_minus_mortgage(p, m_mort) ==
    IF m_mort.exc # "none" THEN Raises(m_mort.exc)
    ELSE Invested(p, RSub(RDiv(RMul(p.house_price, p.rent_yield), Q(12, 1)),
                          m_mort.val))

buy_vs_rent_wealth_rent_minus_mortgage(p) ==
    Contributed_rent_minus_mortgage(p,
        monthly_mortgage_payment(RMul(p.house_price, RSub(One, p.down_pct)),
                                 p.mortgage_rate, p.term_years))

\* lines 48-50, given m_mort: monthly_rent is house_price * rent_yield / 12
\* and monthly_contribution is m_mort - monthly_rent
Contributed(p, m_mort) ==
    IF m_mort.exc # "none" THEN Raises(m_mort.exc)
    ELSE Invested(p, RSub(m_mort.val,
                          RDiv(RMul(p.house_price, p.rent_yield), Q(12, 1))))

\* p is the record of the seven keyword arguments; loan is
\* house_price * (1 - down_pct), down is house_price * down_pct
buy_vs_rent_wealth(p) ==
    Contributed(p,
        monthly_mortgage_payment(RMul(p.house_price, RSub(One, p.down_pct)),
                                 p.mortgage_rate, p.term_years))

(***************************************************************************)
(* format_rm: f"RM {val:,.0f}".  The text is kept as its parts: the sign   *)
(* ("-" for every negative val, also one that rounds to 0) and the         *)
(* thousands groups of the rounded magnitude, most significant first       *)
(* (<<1, 234, 568>> is "1,234,568").                                       *)
(***************************************************************************)
Reverse(a) == [i \in 1..Len(a) |-> a[Len(a) + 1 - i]]

\* the text for a negative or non-negative val whose rounded magnitude is m
Formatted(negative, m) ==
    [prefix |-> "RM ",
     sign |-> IF negative THEN "-" ELSE "",
     groups |-> IF m = <<>> THEN <<0>> ELSE Reverse(m)]

format_rm(val) == Formatted(val.s < 0, RoundHalfEven(val))

(***************************************************************************)
(* The page script.  Its state is the module-level names of the script:    *)
(* the seven sidebar values, the base-case result, the axis arrays, the    *)
(* loop variables (which stay bound after their loops) and the tables.     *)
(***************************************************************************)
VARIABLES
    house_price, down_pct, mortgage_rate, term_years, rent_yield,
    invest_return, home_appreciation,        \* sidebar inputs
    buy_wealth, rent_wealth, diff,           \* base case result
    mr_grid, ir_grid, ap_grid, ry_grid,      \* axis arrays
    ir, mr, ap, ry,                          \* loop variables
    row, data_A, data_B, data_C,             \* tables under construction
    i, j,                                    \* positions of the two iterators
    pc,                                      \* position in the script
    supplied,                                \* history: the sidebar values as read
    calls,                                   \* history: every call made and its outcome
    fn, fargs, fret, fprev,                  \* one function called on its own
    slots                                    \* table A filled cell by cell in any order

sidebarVars == <<house_price, down_pct, mortgage_rate, term_years, rent_yield,
                 invest_return, home_appreciation>>
baseVars == <<buy_wealth, rent_wealth, diff>>
axisVars == <<mr_grid, ir_grid, ap_grid, ry_grid>>
loopVars == <<ir, mr, ap, ry>>
tableVars == <<row, data_A, data_B, data_C>>
callVars == <<fn, fargs, fret, fprev>>
vars == <<sidebarVars, baseVars, axisVars, loopVars, tableVars, i, j, pc,
          supplied, calls, callVars, slots>>

\* a name that is not bound yet
None == [unbound |-> TRUE]

(***************************************************************************)
(* Inputs.  The sidebar offers price 100000..5000000, down payment 0..0.9, *)
(* term 5..40 and rates from 0 in steps of 0.1 percent; the model runs the *)
(* script for a few of these settings.  The axis arrays are the script's   *)
(* np.arange calls, of which the model keeps the first MaxGridLen values.  *)
(***************************************************************************)
MaxGridLen == 2

HousePrices == {Q(800000, 1), Q(500000, 1)}
DownPcts == {Q(10, 100), Q(20, 100)}
MortgageRates == {Q(4, 100), Q(5, 100)}
TermYears == {5}
RentYields == {Q(45, 1000)}
InvestReturns == {Q(6, 100)}
HomeAppreciations == {Q(2, 100)}

\* np.arange(start, stop, step): start + k * step for k = 0, 1, ... below
\* ceil((stop - start) / step)
Ceil(qr) == BigToNat(qr.q) + (IF Norm(qr.r) = <<>> THEN 0 ELSE 1)

\* the first len values of the array, len cut at MaxGridLen
Stepped(start, step, len) ==
    [k \in 1..Min(len, MaxGridLen) |-> RAdd(start, RMul(Q(k - 1, 1), step))]

Span(start, step, x) == Stepped(start, step, Ceil(NDivMod(x.n, x.d)))

arange(start, stop, step) == Span(start, step, RDiv(RSub(stop, start), step))

\* the seven keyword arguments of one call
Args(hp, dp, mrate, ty, ryield, ireturn, ha) ==
    [house_price |-> hp, down_pct |-> dp, mortgage_rate |-> mrate,
     term_years |-> ty, rent_yield |-> ryield, invest_return |-> ireturn,
     home_appreciation |-> ha]

\* arguments of the base-case call
ArgsBase ==
    Args(house_price, down_pct, mortgage_rate, term_years, rent_yield,
         invest_return, home_appreciation)

\* ArgsA with the two loop values exchanged
ArgsA_swapped(irv, mrv) ==
    Args(house_price, down_pct, irv, term_years, rent_yield, mrv,
         home_appreciation)

\* ArgsB reading the loop variable mr, left over from table A, for the
\* mortgage rate
ArgsB_stale_mr(irv, apv) ==
    Args(house_price, down_pct, mr, term_years, rent_yield, irv, apv)

\* arguments of a cell of table A, B, C for the loop values of that cell
ArgsA(irv, mrv) ==
    Args(house_price, down_pct, mrv, term_years, rent_yield, irv,
         home_appreciation)

ArgsB(irv, apv) ==
    Args(house_price, down_pct, mortgage_rate, term_years, rent_yield, irv, apv)

ArgsC(mrv, ryv) ==
    Args(house_price, down_pct, mrv, term_years, ryv, invest_return,
         home_appreciation)

\* one call of buy_vs_rent_wealth, as the history records it: the place of
\* the call (table and cell), its arguments and its outcome
Call(at, a) == [at |-> at, args |-> a, ret |-> buy_vs_rent_wealth(a)]

Init ==
    /\ house_price \in HousePrices
    /\ down_pct \in DownPcts
    /\ mortgage_rate \in MortgageRates
    /\ term_years \in TermYears
    /\ rent_yield \in RentYields
    /\ invest_return \in InvestReturns
    /\ home_appreciation \in HomeAppreciations
    /\ buy_wealth = None /\ rent_wealth = None /\ diff = None
    /\ mr_grid = None /\ ir_grid = None /\ ap_grid = None /\ ry_grid = None
    /\ ir = None /\ mr = None /\ ap = None /\ ry = None
    /\ row = None /\ data_A = None /\ data_B = None /\ data_C = None
    /\ i = 0 /\ j = 0
    /\ pc = "base"
    /\ supplied = ArgsBase
    /\ calls = {}
    /\ fn = "none" /\ fargs = None /\ fret = None /\ fprev = None
    /\ slots = None

\* lines 71-79: the base case
BaseCase ==
    /\ pc = "base"
    /\ UNCHANGED <<callVars, slots>>
    /\ \E c \in {Call(<<"base", 0, 0>>, ArgsBase)} :
           /\ calls' = calls \cup {c}
           /\ IF c.ret.exc = "none"
              THEN /\ buy_wealth' = c.ret.val.buy_wealth
                   /\ rent_wealth' = c.ret.val.rent_wealth
                   /\ diff' = c.ret.val.diff
                   /\ pc' = "axes_A"
              ELSE /\ UNCHANGED baseVars
                   /\ pc' = c.ret.exc
    /\ UNCHANGED <<sidebarVars, axisVars, loopVars, tableVars, i, j, supplied>>

\* lines 134-137
AxesA ==
    /\ pc = "axes_A"
    /\ UNCHANGED <<callVars, slots>>
    /\ mr_grid' = arange(Q(3, 100), Q(601, 10000), Q(5, 1000))
    /\ ir_grid' = arange(Q(4, 100), Q(1001, 10000), Q(1, 100))
    /\ data_A' = <<>>
    /\ i' = 0
    /\ pc' = "for_A"
    /\ UNCHANGED <<sidebarVars, baseVars, ap_grid, ry_grid, loopVars, row,
                   data_B, data_C, j, supplied, calls>>

\* line 138-139: for ir in ir_grid
ForA ==
    /\ pc = "for_A"
    /\ UNCHANGED <<callVars, slots>>
    /\ IF i < Len(ir_grid)
       THEN /\ i' = i + 1
            /\ ir' = ir_grid[i + 1]
            /\ row' = <<>>
            /\ j' = 0
            /\ pc' = "cell_A"
       ELSE /\ pc' = "table_A"
            /\ UNCHANGED <<i, ir, row, j>>
    /\ UNCHANGED <<sidebarVars, baseVars, axisVars, mr, ap, ry, data_A, data_B,
                   data_C, supplied, calls>>

\* lines 140-151: for mr in mr_grid, and the append that ends the row
CellA ==
    /\ pc = "cell_A"
    /\ UNCHANGED <<callVars, slots>>
    /\ IF j < Len(mr_grid)
       THEN \E c \in {Call(<<"A", i, j + 1>>, ArgsA(ir, mr_grid[j + 1]))} :
                /\ j' = j + 1
                /\ mr' = mr_grid[j + 1]
                /\ calls' = calls \cup {c}
                /\ IF c.ret.exc = "none"
                   THEN /\ row' = Append(row, format_rm(c.ret.val.diff))
                        /\ pc' = pc
                   ELSE /\ row' = row
                        /\ pc' = c.ret.exc
                /\ data_A' = data_A
       ELSE /\ data_A' = Append(data_A, row)
            /\ pc' = "for_A"
            /\ UNCHANGED <<j, mr, row, calls>>
    /\ UNCHANGED <<sidebarVars, baseVars, axisVars, ir, ap, ry, data_B, data_C,
                   i, supplied>>

\* lines 153-161: table A is shown
TableA ==
    /\ pc = "table_A"
    /\ UNCHANGED <<callVars, slots>>
    /\ pc' = "axes_B"
    /\ UNCHANGED <<sidebarVars, baseVars, axisVars, loopVars, tableVars, i, j,
                   supplied, calls>>

\* lines 165-167
AxesB ==
    /\ pc = "axes_B"
    /\ UNCHANGED <<callVars, slots>>
    /\ ap_grid' = arange(Q(0, 100), Q(501, 10000), Q(5, 1000))
    /\ data_B' = <<>>
    /\ i' = 0
    /\ pc' = "for_B"
    /\ UNCHANGED <<sidebarVars, baseVars, mr_grid, ir_grid, ry_grid, loopVars,
                   row, data_A, data_C, j, supplied, calls>>

\* lines 168-169: for ir in ir_grid
ForB ==
    /\ pc = "for_B"
    /\ UNCHANGED <<callVars, slots>>
    /\ IF i < Len(ir_grid)
       THEN /\ i' = i + 1
            /\ ir' = ir_grid[i + 1]
            /\ row' = <<>>
            /\ j' = 0
            /\ pc' = "cell_B"
       ELSE /\ pc' = "table_B"
            /\ UNCHANGED <<i, ir, row, j>>
    /\ UNCHANGED <<sidebarVars, baseVars, axisVars, mr, ap, ry, data_A, data_B,
                   data_C, supplied, calls>>

\* lines 170-181: for ap in ap_grid, and the append that ends the row
CellB ==
    /\ pc = "cell_B"
    /\ UNCHANGED <<callVars, slots>>
    /\ IF j < Len(ap_grid)
       THEN \E c \in {Call(<<"B", i, j + 1>>, ArgsB(ir, ap_grid[j + 1]))} :
                /\ j' = j + 1
                /\ ap' = ap_grid[j + 1]
                /\ calls' = calls \cup {c}
                /\ IF c.ret.exc = "none"
                   THEN /\ row' = Append(row, format_rm(c.ret.val.diff))
                        /\ pc' = pc
                   ELSE /\ row' = row
                        /\ pc' = c.ret.exc
                /\ data_B' = data_B
       ELSE /\ data_B' = Append(data_B, row)
            /\ pc' = "for_B"
            /\ UNCHANGED <<j, ap, row, calls>>
    /\ UNCHANGED <<sidebarVars, baseVars, axisVars, ir, mr, ry, data_A, data_C,
                   i, supplied>>

\* lines 183-191: table B is shown
TableB ==
    /\ pc = "table_B"
    /\ UNCHANGED <<callVars, slots>>
    /\ pc' = "axes_C"
    /\ UNCHANGED <<sidebarVars, baseVars, axisVars, loopVars, tableVars, i, j,
                   supplied, calls>>

\* lines 195-197
AxesC ==
    /\ pc = "axes_C"
    /\ UNCHANGED <<callVars, slots>>
    /\ ry_grid' = arange(Q(3, 100), Q(601, 10000), Q(5, 1000))
    /\ data_C' = <<>>
    /\ i' = 0
    /\ pc' = "for_C"
    /\ UNCHANGED <<sidebarVars, baseVars, mr_grid, ir_grid, ap_grid, loopVars,
                   row, data_A, data_B, j, supplied, calls>>

\* lines 198-199: for mr in mr_grid
ForC ==
    /\ pc = "for_C"
    /\ UNCHANGED <<callVars, slots>>
    /\ IF i < Len(mr_grid)
       THEN /\ i' = i + 1
            /\ mr' = mr_grid[i + 1]
            /\ row' = <<>>
            /\ j' = 0
            /\ pc' = "cell_C"
       ELSE /\ pc' = "table_C"
            /\ UNCHANGED <<i, mr, row, j>>
    /\ UNCHANGED <<sidebarVars, baseVars, axisVars, ir, ap, ry, data_A, data_B,
                   data_C, supplied, calls>>

\* lines 200-211: for ry in ry_grid, and the append that ends the row
CellC ==
    /\ pc = "cell_C"
    /\ UNCHANGED <<callVars, slots>>
    /\ IF j < Len(ry_grid)
       THEN \E c \in {Call(<<"C", i, j + 1>>, ArgsC(mr, ry_grid[j + 1]))} :
                /\ j' = j + 1
                /\ ry' = ry_grid[j + 1]
                /\ calls' = calls \cup {c}
                /\ IF c.ret.exc = "none"
                   THEN /\ row' = Append(row, format_rm(c.ret.val.diff))
                        /\ pc' = pc
                   ELSE /\ row' = row
                        /\ pc' = c.ret.exc
                /\ data_C' = data_C
       ELSE /\ data_C' = Append(data_C, row)
            /\ pc' = "for_C"
            /\ UNCHANGED <<j, ry, row, calls>>
    /\ UNCHANGED <<sidebarVars, baseVars, axisVars, ir, mr, ap, data_A, data_B,
                   i, supplied>>

\* lines 213-221: table C is shown and the script ends
TableC ==
    /\ pc = "table_C"
    /\ UNCHANGED <<callVars, slots>>
    /\ pc' = "done"
    /\ UNCHANGED <<sidebarVars, baseVars, axisVars, loopVars, tableVars, i, j,
                   supplied, calls>>

Next ==
    \/ BaseCase
    \/ AxesA \/ ForA \/ CellA \/ TableA
    \/ AxesB \/ ForB \/ CellB \/ TableB
    \/ AxesC \/ ForC \/ CellC \/ TableC

Spec == Init /\ [][Next]_vars

(***************************************************************************)
(* Table A with its cells computed in any order: after the script's own    *)
(* loop has built data_A, the body of the inner loop (lines 141-150) is    *)
(* run once for each of the first MaxParCells cells (in row-major order),  *)
(* in every order, each run with its own ir and mr and writing slot        *)
(* <<row, column>>.                                                        *)
(***************************************************************************)
MaxParCells == 4

StartPar ==
    /\ pc = "table_A"
    /\ slots' = [ix \in {x \in (1..Len(ir_grid)) \X (1..Len(mr_grid)) :
                          (x[1] - 1) * Len(mr_grid) + x[2] <= MaxParCells}
                     |-> None]
    /\ pc' = "par_A"
    /\ UNCHANGED <<sidebarVars, baseVars, axisVars, loopVars, tableVars, i, j,
                   supplied, calls, callVars>>

\* ParCell reading the script's shared loop variables ir and mr instead of
\* the values of its own cell
ParCell_shared_loop_vars ==
    /\ pc = "par_A"
    /\ \E ix \in DOMAIN slots :
         /\ slots[ix] = None
         /\ \E c \in {Call(<<"par_A", ix[1], ix[2]>>, ArgsA(ir, mr))} :
              /\ calls' = calls \cup {c}
              /\ IF c.ret.exc = "none"
                 THEN /\ slots' = [slots EXCEPT ![ix] = format_rm(c.ret.val.diff)]
                      /\ pc' = pc
                 ELSE /\ slots' = slots
                      /\ pc' = c.ret.exc
    /\ UNCHANGED <<sidebarVars, baseVars, axisVars, loopVars, tableVars, i, j,
                   supplied, callVars>>

ParCell ==
    /\ pc = "par_A"
    /\ \E ix \in DOMAIN slots :
         /\ slots[ix] = None
         /\ \E c \in {Call(<<"par_A", ix[1], ix[2]>>,
                         ArgsA(ir_grid[ix[1]], mr_grid[ix[2]]))} :
              /\ calls' = calls \cup {c}
              /\ IF c.ret.exc = "none"
                 THEN /\ slots' = [slots EXCEPT ![ix] = format_rm(c.ret.val.diff)]
                      /\ pc' = pc
                 ELSE /\ slots' = slots
                      /\ pc' = c.ret.exc
    /\ UNCHANGED <<sidebarVars, baseVars, axisVars, loopVars, tableVars, i, j,
                   supplied, callVars>>

NextPar == BaseCase \/ AxesA \/ ForA \/ CellA \/ StartPar \/ ParCell

SpecPar == Init /\ [][NextPar]_vars

(***************************************************************************)
(* The four functions called on their own, with arguments from inside and  *)
(* outside the ranges the sidebar offers.                                  *)
(***************************************************************************)
MaxYears == 2

FnYears == {0 - 1} \cup (0..MaxYears)
FnAmounts == {Q(0, 1), Q(720000, 1), Q(0 - 3000, 1)}
\* a rate of 1e-17, far below the resolution of 1 + r
TinyRate == [s |-> 1, n |-> <<1>>, d |-> NPow(<<10>>, 17)]
FnRates == {Q(0, 1), TinyRate, Q(6, 100), Q(0 - 6, 100)}

FnHousePrices == {Q(800000, 1)}
FnDownPcts == {Q(0, 1), Q(1, 10), Q(1, 1), Q(3, 2)}
FnMortgageRates == {Q(0, 1), TinyRate, Q(6, 100), Q(0 - 6, 100)}
FnRentYields == {Q(0, 1), Q(45, 1000), Q(1, 1)}
FnInvestReturns == {Q(0, 1), TinyRate, Q(6, 100)}
FnHomeAppreciations == {Q(0, 1), Q(2, 100)}

FnArgs3 == [amount : FnAmounts, annual_rate : FnRates, years : FnYears]
FnArgs7 ==
    [house_price : FnHousePrices, down_pct : FnDownPcts,
     mortgage_rate : FnMortgageRates, term_years : FnYears,
     rent_yield : FnRentYields, invest_return : FnInvestReturns,
     home_appreciation : FnHomeAppreciations]

InitFn ==
    /\ house_price = None /\ down_pct = None /\ mortgage_rate = None
    /\ term_years = None /\ rent_yield = None /\ invest_return = None
    /\ home_appreciation = None
    /\ buy_wealth = None /\ rent_wealth = None /\ diff = None
    /\ mr_grid = None /\ ir_grid = None /\ ap_grid = None /\ ry_grid = None
    /\ ir = None /\ mr = None /\ ap = None /\ ry = None
    /\ row = None /\ data_A = None /\ data_B = None /\ data_C = None
    /\ i = 0 /\ j = 0
    /\ supplied = None
    /\ calls = {}
    /\ slots = None
    /\ pc = "call"
    /\ \/ /\ fn \in {"monthly_mortgage_payment", "fv_lump_sum", "fv_monthly_annuity"}
          /\ fargs \in FnArgs3
       \/ /\ fn = "buy_vs_rent_wealth"
          /\ fargs \in FnArgs7
    /\ fret = None
    /\ fprev = None

pageVars == <<sidebarVars, baseVars, axisVars, loopVars, tableVars, i, j,
              supplied, calls, slots>>

CallMortgagePayment ==
    /\ pc = "call" /\ fn = "monthly_mortgage_payment"
    /\ fret' = monthly_mortgage_payment(fargs.amount, fargs.annual_rate, fargs.years)
    /\ pc' = "returned"
    /\ UNCHANGED <<pageVars, fn, fargs, fprev>>

CallLumpSum ==
    /\ pc = "call" /\ fn = "fv_lump_sum"
    /\ fret' = fv_lump_sum(fargs.amount, fargs.annual_rate, fargs.years)
    /\ pc' = "returned"
    /\ UNCHANGED <<pageVars, fn, fargs, fprev>>

CallMonthlyAnnuity ==
    /\ pc = "call" /\ fn = "fv_monthly_annuity"
    /\ fret' = fv_monthly_annuity(fargs.amount, fargs.annual_rate, fargs.years)
    /\ pc' = "returned"
    /\ UNCHANGED <<pageVars, fn, fargs, fprev>>

CallBuyVsRent ==
    /\ pc = "call" /\ fn = "buy_vs_rent_wealth"
    /\ fret' = buy_vs_rent_wealth(fargs)
    /\ pc' = "returned"
    /\ UNCHANGED <<pageVars, fn, fargs, fprev>>

\* a second call of buy_vs_rent_wealth with one rate raised
CallAgain ==
    /\ pc = "returned" /\ fn = "buy_vs_rent_wealth"
    /\ \E a \in FnArgs7 :
         /\ \/ /\ a = [fargs EXCEPT !.invest_return = a.invest_return]
               /\ RLt(fargs.invest_return, a.invest_return)
            \/ /\ a = [fargs EXCEPT !.home_appreciation = a.home_appreciation]
               /\ RLt(fargs.home_appreciation, a.home_appreciation)
         /\ fprev' = [args |-> fargs, ret |-> fret]
         /\ fargs' = a
         /\ fret' = buy_vs_rent_wealth(a)
    /\ pc' = "again"
    /\ UNCHANGED <<pageVars, fn>>

NextFn ==
    \/ CallMortgagePayment \/ CallLumpSum \/ CallMonthlyAnnuity
    \/ CallBuyVsRent \/ CallAgain

SpecFn == InitFn /\ [][NextFn]_vars

(***************************************************************************)
(* Properties of the four functions, stated for SpecFn.                    *)
(***************************************************************************)
Returned == pc \in {"returned", "again"}

\* the ranges the specification calls valid for the seven arguments
ValidArgs7(a) ==
    /\ a.house_price.s >= 0
    /\ a.down_pct.s >= 0 /\ RLt(a.down_pct, One)
    /\ a.mortgage_rate.s >= 0 /\ a.rent_yield.s >= 0
    /\ a.invest_return.s >= 0 /\ a.home_appreciation.s >= 0
    /\ a.term_years > 0

\* ret is the outcome composed of buy wealth b, lump sum l and annuity a
Composed(ret, b, l, a) ==
    IF b.exc = "none" /\ l.exc = "none" /\ a.exc = "none"
    THEN /\ ret.exc = "none"
         /\ REq(ret.val.buy_wealth, b.val)
         /\ REq(ret.val.rent_wealth, RAdd(l.val, a.val))
         /\ REq(ret.val.diff, RSub(ret.val.buy_wealth, ret.val.rent_wealth))
    ELSE ret.exc = "ZeroDivisionError"

\* ret is the outcome composed for arguments p, given the mortgage payment m
ComposedWithPayment(p, ret, m) ==
    IF m.exc # "none" THEN ret.exc = "ZeroDivisionError"
    ELSE Composed(ret,
             fv_lump_sum(p.house_price, p.home_appreciation, p.term_years),
             fv_lump_sum(RMul(p.house_price, p.down_pct), p.invest_return,
                         p.term_years),
             fv_monthly_annuity(
                 RSub(m.val, RDiv(RMul(p.house_price, p.rent_yield), Q(12, 1))),
                 p.invest_return, p.term_years))

\* C1: the outcome of buy_vs_rent_wealth is the outcome of composing the
\* three formula functions: buy wealth is fv_lump_sum of the price at the
\* appreciation rate, rent wealth is fv_lump_sum of the down payment plus
\* fv_monthly_annuity of (mortgage payment - rent) at the investment return,
\* the difference is buy wealth - rent wealth, and the call raises exactly
\* when one of the composed calls raises.
C1_EvaluateIsComposition ==
    (Returned /\ fn = "buy_vs_rent_wealth") =>
        ComposedWithPayment(fargs, fret,
            monthly_mortgage_payment(
                RMul(fargs.house_price, RSub(One, fargs.down_pct)),
                fargs.mortgage_rate, fargs.term_years))

C1_Witness ==
    /\ pc = "returned" /\ fn = "buy_vs_rent_wealth"
    /\ ValidArgs7(fargs) /\ fargs.term_years = MaxYears
    /\ fargs.mortgage_rate = Q(6, 100) /\ fargs.invest_return = Q(6, 100)
    /\ fargs.down_pct = Q(1, 10) /\ fargs.rent_yield = Q(45, 1000)
    /\ fret.exc = "none" /\ fret.val.diff.s # 0

\* C2: for principal > 0, rate >= 0 and years > 0 monthly_mortgage_payment
\* returns a positive number; for rate > 0 the payments add up to at least
\* the principal, for rate = 0 the payment is principal / (years * 12).
C2_PaymentPositive ==
    (pc = "returned" /\ fn = "monthly_mortgage_payment"
        /\ fargs.amount.s > 0 /\ fargs.annual_rate.s >= 0 /\ fargs.years > 0) =>
        /\ fret.exc = "none"
        /\ fret.val.s > 0
        /\ fargs.annual_rate.s > 0 =>
               RLe(fargs.amount, RMul(fret.val, Q(fargs.years * 12, 1)))
        /\ fargs.annual_rate.s = 0 =>
               REq(fret.val, RDiv(fargs.amount, Q(fargs.years * 12, 1)))

\* C4: a call with an invalid argument (down payment fraction >= 1, term
\* <= 0, a negative rate or price) is rejected with InvalidParameter, by
\* buy_vs_rent_wealth and by each of the three formula functions.
C4_InvalidRejected ==
    /\ (pc = "returned" /\ fn = "buy_vs_rent_wealth" /\ ~ValidArgs7(fargs)) =>
           fret.exc = "InvalidParameter"
    /\ (pc = "returned" /\ fn # "buy_vs_rent_wealth"
           /\ (fargs.annual_rate.s < 0 \/ fargs.years <= 0)) =>
           fret.exc = "InvalidParameter"

\* C5: with everything else fixed at valid values, buy wealth is strictly
\* increasing in the appreciation rate and rent wealth is strictly
\* increasing in the investment return, also when mortgage - rent is
\* negative or the down payment is zero.
C5_Monotone ==
    (pc = "again" /\ ValidArgs7(fprev.args) /\ ValidArgs7(fargs)
        /\ fprev.ret.exc = "none" /\ fret.exc = "none") =>
        /\ RLt(fprev.args.home_appreciation, fargs.home_appreciation) =>
               RLt(fprev.ret.val.buy_wealth, fret.val.buy_wealth)
        /\ RLt(fprev.args.invest_return, fargs.invest_return) =>
               RLt(fprev.ret.val.rent_wealth, fret.val.rent_wealth)

\* C6: with a loan principal of 0 monthly_mortgage_payment is 0 for every
\* rate >= 0 and term > 0, and buy_vs_rent_wealth with the down payment
\* covering the whole price returns a result without a division by zero.
C6_ZeroPrincipal ==
    /\ (pc = "returned" /\ fn = "monthly_mortgage_payment"
           /\ fargs.amount.s = 0 /\ fargs.annual_rate.s >= 0 /\ fargs.years > 0) =>
           (fret.exc = "none" /\ fret.val.s = 0)
    /\ (Returned /\ fn = "buy_vs_rent_wealth" /\ fargs.down_pct = One
           /\ ValidArgs7([fargs EXCEPT !.down_pct = Zero])) =>
           fret.exc = "none"

\* C7: at an annual rate of 0 fv_lump_sum(pv, 0, years) is pv and
\* fv_monthly_annuity(pmt, 0, years) is pmt * years * 12, for every pv,
\* every pmt (negative ones too) and every years.
C7_ZeroRateNoGrowth ==
    (pc = "returned" /\ fn \in {"fv_lump_sum", "fv_monthly_annuity"}
        /\ fargs.annual_rate.s = 0) =>
        /\ fret.exc = "none"
        /\ fn = "fv_lump_sum" => REq(fret.val, fargs.amount)
        /\ fn = "fv_monthly_annuity" =>
               REq(fret.val, RMul(fargs.amount, Q(fargs.years * 12, 1)))

C7_Witness ==
    /\ pc = "returned" /\ fn = "fv_monthly_annuity"
    /\ fargs.annual_rate.s = 0 /\ fargs.amount.s < 0 /\ fargs.years = MaxYears
    /\ fret.exc = "none" /\ fret.val.s < 0

(***************************************************************************)
(* Properties of the page script, stated for Spec and SpecPar.             *)
(***************************************************************************)
\* the base parameters with the two swept fields of a table overridden
CellArgsA(r, c) ==
    [supplied EXCEPT !.invest_return = ir_grid[r], !.mortgage_rate = mr_grid[c]]
CellArgsB(r, c) ==
    [supplied EXCEPT !.invest_return = ir_grid[r], !.home_appreciation = ap_grid[c]]
CellArgsC(r, c) ==
    [supplied EXCEPT !.mortgage_rate = mr_grid[r], !.rent_yield = ry_grid[c]]

\* table has one row per row value and one column per column value
Shape(table, rows, cols) ==
    /\ Len(table) = Len(rows)
    /\ \A r \in 1..Len(rows) : Len(table[r]) = Len(cols)

\* the number a cell shows
ShownNumber(cell) ==
    LET m == Norm(Reverse(cell.groups))
    IN  [s |-> IF m = <<>> THEN 0 ELSE IF cell.sign = "-" THEN -1 ELSE 1,
         n |-> m, d |-> <<1>>]

\* C3 as stated: table A has one row per row value and one column per
\* column value in the order supplied, and cell [r][c] holds the difference
\* buy_vs_rent_wealth returns for the base parameters with the row and
\* column values of the cell.
C3_CellsHoldDifference ==
    pc = "table_A" =>
        /\ Shape(data_A, ir_grid, mr_grid)
        /\ \A r \in 1..Len(ir_grid) : \A c \in 1..Len(mr_grid) :
               REq(ShownNumber(data_A[r][c]),
                   buy_vs_rent_wealth(CellArgsA(r, c)).val.diff)

\* C3 as amended: each finished table has one row per row value and one
\* column per column value in the order supplied, nothing sorted or
\* dropped, and cell [r][c] holds format_rm of the difference
\* buy_vs_rent_wealth returns for the base parameters with the row and
\* column values of the cell: the text "RM " and the difference rounded to
\* a whole number.
C3_CellsHoldFormattedDifference ==
    /\ pc = "table_A" =>
        /\ Shape(data_A, ir_grid, mr_grid)
        /\ \A r \in 1..Len(ir_grid) : \A c \in 1..Len(mr_grid) :
               data_A[r][c] = format_rm(buy_vs_rent_wealth(CellArgsA(r, c)).val.diff)
    /\ pc = "table_B" =>
        /\ Shape(data_B, ir_grid, ap_grid)
        /\ \A r \in 1..Len(ir_grid) : \A c \in 1..Len(ap_grid) :
               data_B[r][c] = format_rm(buy_vs_rent_wealth(CellArgsB(r, c)).val.diff)
    /\ pc = "table_C" =>
        /\ Shape(data_C, mr_grid, ry_grid)
        /\ \A r \in 1..Len(mr_grid) : \A c \in 1..Len(ry_grid) :
               data_C[r][c] = format_rm(buy_vs_rent_wealth(CellArgsC(r, c)).val.diff)

\* the script has ended with three finished tables whose cells differ
C3_Witness ==
    /\ pc = "done"
    /\ Shape(data_A, ir_grid, mr_grid) /\ Len(ir_grid) > 1 /\ Len(mr_grid) > 1
    /\ Shape(data_B, ir_grid, ap_grid) /\ Len(ap_grid) > 1
    /\ Shape(data_C, mr_grid, ry_grid) /\ Len(ry_grid) > 1
    /\ data_A[1][2] # data_A[2][1]
    /\ data_B[1][2] # data_B[2][1]
    /\ data_C[1][2] # data_C[2][1]

C10_BaseUnchanged ==
    /\ ArgsBase = supplied
    /\ \A c \in calls :
        /\ c.at[1] = "base" => c.args = supplied
        /\ c.at[1] = "A" =>
               [c.args EXCEPT !.invest_return = supplied.invest_return,
                              !.mortgage_rate = supplied.mortgage_rate] = supplied
        /\ c.at[1] = "B" =>
               [c.args EXCEPT !.invest_return = supplied.invest_return,
                              !.home_appreciation = supplied.home_appreciation] = supplied
        /\ c.at[1] = "C" =>
               [c.args EXCEPT !.mortgage_rate = supplied.mortgage_rate,
                              !.rent_yield = supplied.rent_yield] = supplied

\* the script has ended with loop variables that differ from the base values
C10_Witness ==
    /\ pc = "done"
    /\ mr # mortgage_rate /\ ir # invest_return /\ ry # rent_yield
    /\ \E c \in calls : c.at[1] = "B" /\ c.args.mortgage_rate # mr
    /\ \E c \in calls : c.at[1] = "C" /\ c.args.invest_return # ir

====
